---- MODULE Spec2Model ----
(***************************************************************************)
(* Authentication and session continuity of the meeting-transcript app     *)
(* (transcript-summary-app-simpler-rendering/app.py and                    *)
(* services/auth_service.py): OAuth2 authorization-code login, CSRF state  *)
(* check, resume intent with its base64 backup, token cache, logout.       *)
(*                                                                         *)
(* One browser session is modelled.  Optional values (a session key that   *)
(* may be missing, a request parameter that may be missing) are sequences  *)
(* of length 0 or 1: <<>> is "key absent" (session.get gives None),        *)
(* <<v>> is "present with value v".  The empty string "" stands for a      *)
(* request parameter that is missing or empty (both falsy in the code).    *)
(***************************************************************************)
EXTENDS Integers, Sequences, FiniteSets, TLC

\* ------------------------------------------------------------------ bounds
\* number of uuid4 values drawn by auth_login in one behaviour
MaxLogins == 2

\* ------------------------------------------------------- request inputs
Emails == {"", "a@x"}
ReturnTypes == {"", "teams", "zoom"}
ReturnIds == {"", "m123"}
\* authorization codes, by the answer the provider gives to their exchange
Codes == {"valid_code", "expired_code", "odd_code"}
Errors == {"access_denied"}
ErrorDescriptions == {"user declined"}
\* state values a callback can carry: none, any uuid, or a forged value 0
ReceivedStates == {<<>>} \cup {<<n>> : n \in 0..MaxLogins}

\* the Graph /me profiles of the signed-in user ("" is a null mail)
Profiles == {[displayName |-> "Live User", mail |-> "live@x", userPrincipalName |-> "upn@x"],
             [displayName |-> "Live User", mail |-> "", userPrincipalName |-> "upn@x"]}

VARIABLES
    USE_MOCK_DATA,        \* app.py:35, fixed at start-up
    BYPASS_STATE_CHECK,   \* app.py:36, fixed at start-up
    credentials,          \* client id and secret both configured (auth_service.py:42)
    session,              \* the Flask session of the one browser
    nextUuid,             \* the next value uuid.uuid4() yields
    atExpired,            \* the cached access token is past its expiry
    refreshOk,            \* the provider still honours the cached refresh token
    resp,                 \* the response to the request just handled; NoResp after
                          \* a step of the environment
    taken                 \* history: a login resumed to a target since the latest
                          \* auth_login that gave an intent

vars == <<USE_MOCK_DATA, BYPASS_STATE_CHECK, credentials, session, nextUuid,
          atExpired, refreshOk, resp, taken>>

config == <<USE_MOCK_DATA, BYPASS_STATE_CHECK, credentials>>
env == <<atExpired, refreshOk>>
history == <<taken>>

\* ----------------------------------------------------------- the session
\* session.clear(), and the session of a browser that lost its cookie
EmptySession ==
    [state |-> <<>>, email |-> <<>>, returnToSummary |-> <<>>, encoded_state |-> <<>>,
     token_cache |-> <<>>, user |-> <<>>, authenticated |-> <<>>, access_token |-> <<>>]

\* Python None stored under a key
None == <<"None">>

\* --------------------------------------------------- backup blob encoding
\* json.dumps of the return data, as the sequence of its fields
JsonDumps(return_data) ==
    <<"json", return_data.uuid, return_data.type, return_data.id, return_data.email>>

\* base64.urlsafe_b64encode(...).decode()
B64Encode(text) == <<"b64", text>>

\* base64.urlsafe_b64decode(...).decode(); <<>> when the input is no base64 text
B64Decode(blob) == IF Len(blob) = 2 /\ blob[1] = "b64" THEN <<blob[2]>> ELSE <<>>

\* json.loads; <<>> when the text is no JSON object of the return data
JsonLoads(text) ==
    IF Len(text) = 5 /\ text[1] = "json"
    THEN <<[uuid |-> text[2], type |-> text[3], id |-> text[4], email |-> text[5]]>>
    ELSE <<>>

\* app.py:118-125
EncodeState(state, return_type, return_id, return_email) ==
    B64Encode(JsonDumps([uuid |-> state, type |-> return_type, id |-> return_id,
                         email |-> return_email]))

\* DecodeState that recovers no email
DecodeStateNoEmail(encoded_state) ==
    LET decoded_json == B64Decode(encoded_state)
        return_data == IF decoded_json = <<>> THEN <<>> ELSE JsonLoads(decoded_json[1])
    IN IF return_data = <<>> THEN <<>>
       ELSE <<[type |-> return_data[1].type, id |-> return_data[1].id, email |-> ""]>>

\* app.py:261-272: the recovered return_info, <<>> when decoding raised
DecodeState(encoded_state) ==
    LET decoded_json == B64Decode(encoded_state)
        return_data == IF decoded_json = <<>> THEN <<>> ELSE JsonLoads(decoded_json[1])
    IN IF return_data = <<>> THEN <<>>
       ELSE <<[type |-> return_data[1].type, id |-> return_data[1].id,
               email |-> return_data[1].email]>>

\* ------------------------------------------------------------ responses
NoUrl == [page |-> "", id |-> "", email |-> "", state |-> <<>>]
Url(page, id, email) == [page |-> page, id |-> id, email |-> email, state |-> <<>>]
HomeUrl == Url("home", "", "")

\* op: the route; status: HTTP status; kind: which return statement answered;
\* url: redirect target; msg: the text surfaced, as the sequence of its parts;
\* warned: the bypass warning was
\* printed; exchanged: the code was sent to the provider
Response(op, status, kind, url, msg, warned, exchanged) ==
    [op |-> op, status |-> status, kind |-> kind, url |-> url, msg |-> msg,
     warned |-> warned, exchanged |-> exchanged]

NoResp == Response("none", 0, "none", NoUrl, <<>>, FALSE, FALSE)

\* ------------------------------------------------------- the token cache
\* msal.SerializableTokenCache(): no account, nothing changed
FreshCache == [account |-> "", access_token |-> "", has_state_changed |-> FALSE]

\* cache.serialize(): the JSON text of the cache
Serialize(cache) == <<"msal_json", cache.account, cache.access_token>>

\* cache.deserialize(text)
Deserialize(text) ==
    [account |-> text[2], access_token |-> text[3], has_state_changed |-> FALSE]

\* app.py:46-51
_load_cache(s) ==
    IF s.token_cache # <<>> THEN Deserialize(s.token_cache[1]) ELSE FreshCache

\* _save_cache that never writes
_save_cacheNever(s, cache) == s

\* app.py:54-57: the session after _save_cache(cache)
_save_cache(s, cache) ==
    IF cache.has_state_changed THEN [s EXCEPT !.token_cache = <<Serialize(cache)>>] ELSE s

\* ---------------------------------------------------------- AuthService
mock_user == "mock_user_123"

\* auth_service.py:37-50: FALSE stands for the None returned without credentials
_get_msal_app == credentials

\* auth_service.py:170-187
get_accounts(cache) ==
    IF USE_MOCK_DATA THEN <<mock_user>>
    ELSE IF ~_get_msal_app THEN <<>>
    ELSE IF cache.account = "" THEN <<>> ELSE <<cache.account>>

\* acquire_token_silent that answers from the cache past the token's expiry
acquire_token_silentIgnoresExpiry(account, cache, expired) ==
    IF USE_MOCK_DATA
    THEN [result |-> <<"mock_access_token_delegated_refreshed">>, cache |-> cache]
    ELSE IF ~_get_msal_app THEN [result |-> <<>>, cache |-> cache]
    ELSE [result |-> <<cache.access_token>>, cache |-> cache]

\* auth_service.py:135-168: the result (<<>> is None) and the cache afterwards;
\* expired tells whether the cached access token is past its expiry at the call.
\* MSAL answers from the cache while the access token is fresh, redeems the
\* refresh token when it is not, and gives None when that fails.
acquire_token_silent(account, cache, expired) ==
    IF USE_MOCK_DATA
    THEN [result |-> <<"mock_access_token_delegated_refreshed">>, cache |-> cache]
    ELSE IF ~_get_msal_app THEN [result |-> <<>>, cache |-> cache]
    ELSE IF ~expired THEN [result |-> <<cache.access_token>>, cache |-> cache]
    ELSE IF refreshOk
         THEN [result |-> <<"at_refreshed">>,
               cache |-> [cache EXCEPT !.access_token = "at_refreshed",
                                       !.has_state_changed = TRUE]]
         ELSE [result |-> <<>>, cache |-> cache]

\* auth_service.py:94-133: outcome "ok" (a result with an access_token),
\* "no_token" (a result with neither error nor access_token) or "raise" (with
\* the exception text), the cache afterwards, and whether the code was sent
\* to the provider's token endpoint
acquire_token_by_auth_code(auth_code, cache) ==
    IF USE_MOCK_DATA
    THEN [outcome |-> "ok", access_token |-> "mock_access_token_delegated",
          text |-> "", cache |-> cache, network |-> FALSE]
    ELSE IF ~_get_msal_app
    THEN [outcome |-> "raise", access_token |-> "",
          text |-> "Microsoft credentials not configured", cache |-> cache,
          network |-> FALSE]
    ELSE IF auth_code = "valid_code"
    THEN [outcome |-> "ok", access_token |-> "at_code", text |-> "",
          cache |-> [account |-> "acct", access_token |-> "at_code",
                     has_state_changed |-> TRUE],
          network |-> TRUE]
    ELSE IF auth_code = "expired_code"
    THEN [outcome |-> "raise", access_token |-> "",
          text |-> "Failed to acquire token: invalid_grant", cache |-> cache,
          network |-> TRUE]
    ELSE [outcome |-> "no_token", access_token |-> "", text |-> "", cache |-> cache,
          network |-> TRUE]

\* get_login_url that needs credentials in mock mode too
get_login_urlNeedsCredentials(state) ==
    IF ~_get_msal_app THEN [outcome |-> "raise", url |-> NoUrl]
    ELSE IF USE_MOCK_DATA THEN [outcome |-> "ok", url |-> Url("mock_login", "", "")]
    ELSE [outcome |-> "ok",
          url |-> [page |-> "provider", id |-> "", email |-> "", state |-> <<state>>]]

\* get_login_url that puts no state in the URL
get_login_urlNoState(state) ==
    IF USE_MOCK_DATA THEN [outcome |-> "ok", url |-> Url("mock_login", "", "")]
    ELSE IF ~_get_msal_app THEN [outcome |-> "raise", url |-> NoUrl]
    ELSE [outcome |-> "ok", url |-> Url("provider", "", "")]

\* auth_service.py:52-92: the login URL, or "raise" without credentials
get_login_url(state) ==
    IF USE_MOCK_DATA THEN [outcome |-> "ok", url |-> Url("mock_login", "", "")]
    ELSE IF ~_get_msal_app THEN [outcome |-> "raise", url |-> NoUrl]
    ELSE [outcome |-> "ok",
          url |-> [page |-> "provider", id |-> "", email |-> "", state |-> <<state>>]]

\* ------------------------------------------------ authentication helpers
\* _get_token_from_cache that drops the pending login when it finds no token
_get_token_from_cacheExpiresPending(s, expired) ==
    LET cache == _load_cache(s)
        accounts == get_accounts(cache)
        silent == acquire_token_silent(accounts[1], cache, expired)
    IN IF accounts # <<>> /\ silent.result # <<>>
       THEN [token |-> silent.result, session |-> _save_cache(s, silent.cache),
             refreshed |-> silent.cache.has_state_changed]
       ELSE [token |-> <<>>,
             session |-> [s EXCEPT !.state = <<>>, !.returnToSummary = <<>>],
             refreshed |-> FALSE]

\* app.py:60-76: the token (<<>> is None), the session afterwards, and whether
\* the silent call redeemed the refresh token
_get_token_from_cache(s, expired) ==
    LET cache == _load_cache(s)
        accounts == get_accounts(cache)
        silent == acquire_token_silent(accounts[1], cache, expired)
    IN IF accounts # <<>> /\ silent.result # <<>>
       THEN [token |-> silent.result, session |-> _save_cache(s, silent.cache),
             refreshed |-> silent.cache.has_state_changed]
       ELSE [token |-> <<>>, session |-> s, refreshed |-> FALSE]

\* _is_authenticated that asks the token cache in mock mode too
_is_authenticatedByToken(s, expired) ==
    _get_token_from_cache(s, expired).token # <<>>

\* app.py:79-85: the value _is_authenticated() returns on session s
_is_authenticated(s, expired) ==
    IF USE_MOCK_DATA THEN s.authenticated # <<>>
    ELSE _get_token_from_cache(s, expired).token # <<>>

\* ------------------------------------------------------------------ Init
\* what the environment holds for a flag: nothing, or a text
EnvValues == {<<>>, <<"true">>, <<"True">>, <<"false">>, <<"1">>}

\* str.lower() on the texts of EnvValues
Lower(text) == IF text = "True" THEN "true" ELSE text

\* os.getenv(name, default)
Getenv(value, default) == IF value = <<>> THEN default ELSE value[1]

\* app.py:35-36: os.getenv(name, default).lower() == 'true'
EnvFlag(value, default) == Lower(Getenv(value, default)) = "true"

Init ==
    /\ USE_MOCK_DATA \in {EnvFlag(value, "true") : value \in EnvValues}
    /\ BYPASS_STATE_CHECK \in {EnvFlag(value, "false") : value \in EnvValues}
    /\ credentials \in BOOLEAN
    /\ session = EmptySession
    /\ nextUuid = 1
    /\ atExpired = FALSE
    /\ refreshOk = TRUE
    /\ resp = NoResp
    /\ taken = FALSE

\* --------------------------------------------------------------- routes
\* LoginSession with a state token that is kept while one is pending
LoginSessionKeepsPending(s, state, email, return_type, return_id) ==
    LET s1 == [s EXCEPT !.state = IF s.state = <<>> THEN <<state>> ELSE s.state,
                        !.email = <<email>>]
    IN IF return_type # "" /\ return_id # ""
       THEN [s1 EXCEPT
              !.returnToSummary =
                  <<[type |-> return_type, id |-> return_id, email |-> email]>>,
              !.encoded_state = <<EncodeState(state, return_type, return_id, email)>>]
       ELSE [s1 EXCEPT !.encoded_state = <<None>>]

\* LoginSession that leaves the backup blob alone when the login has no intent
LoginSessionKeepsBlob(s, state, email, return_type, return_id) ==
    LET s1 == [s EXCEPT !.state = <<state>>, !.email = <<email>>]
    IN IF return_type # "" /\ return_id # ""
       THEN [s1 EXCEPT
              !.returnToSummary =
                  <<[type |-> return_type, id |-> return_id, email |-> email]>>,
              !.encoded_state = <<EncodeState(state, return_type, return_id, email)>>]
       ELSE s1

\* app.py:93-132: the session after the writes of auth_login
LoginSession(s, state, email, return_type, return_id) ==
    LET s1 == [s EXCEPT !.state = <<state>>, !.email = <<email>>]
    IN IF return_type # "" /\ return_id # ""
       THEN [s1 EXCEPT
              !.returnToSummary =
                  <<[type |-> return_type, id |-> return_id, email |-> email]>>,
              !.encoded_state = <<EncodeState(state, return_type, return_id, email)>>]
       ELSE [s1 EXCEPT !.encoded_state = <<None>>]

\* app.py:89-139, GET /auth/login?email=&return_type=&return_id=
auth_login(email, return_type, return_id) ==
    LET state == nextUuid
        s2 == LoginSession(session, state, email, return_type, return_id)
        login == get_login_url(state)
        intent == return_type # "" /\ return_id # ""
    IN /\ nextUuid <= MaxLogins
       /\ nextUuid' = nextUuid + 1
       /\ IF login.outcome = "ok"
          THEN /\ session' = s2
               /\ resp' = Response("login", 302, "redirect", login.url, <<>>, FALSE, FALSE)
          ELSE \* the exception leaves the view; whether the session writes made
               \* before it are stored depends on how the host handles the error
               /\ session' \in {s2, session}
               /\ resp' = Response("login", 500, "exception", NoUrl,
                                   <<"Microsoft credentials not configured">>, FALSE, FALSE)
       /\ taken' = IF intent THEN FALSE ELSE taken
       /\ UNCHANGED <<config, env>>

\* MockRouteClosed that leaves the mock routes open in live mode
MockRouteClosedNever == FALSE

\* app.py:144 and app.py:153: the mock routes serve only mock mode
MockRouteClosed == ~USE_MOCK_DATA

\* app.py:142-148, GET /auth/mock-login
auth_mock_login ==
    /\ resp' = IF MockRouteClosed
               THEN Response("mock_login", 302, "redirect", Url("auth_login", "", ""),
                             <<>>, FALSE, FALSE)
               ELSE Response("mock_login", 200, "page", NoUrl, <<>>, FALSE, FALSE)
    /\ UNCHANGED <<config, env, history, session, nextUuid>>

\* app.py:175-187: the redirect of the mock callback for the session's intent
MockRedirectUrl(s) ==
    IF s.returnToSummary # <<>>
    THEN LET summary_data == s.returnToSummary[1]
         IN IF summary_data.type = "teams"
            THEN Url("teams", summary_data.id,
                     IF s.email # <<>> THEN s.email[1] ELSE "user@example.com")
            ELSE Url("zoom", summary_data.id, "")
    ELSE HomeUrl

\* app.py:151-189, POST /auth/mock-callback
auth_mock_callback ==
    /\ IF MockRouteClosed
       THEN /\ resp' = Response("mock_callback", 400, "not_available", NoUrl,
                                <<"Mock authentication not available">>, FALSE, FALSE)
            /\ UNCHANGED <<session, taken>>
       ELSE LET s1 == [session EXCEPT
                         !.authenticated = <<TRUE>>,
                         !.user = <<[name |-> "Mock User", email |-> "user@example.com"]>>]
                cache == _load_cache(s1)
                result == acquire_token_by_auth_code("mock_code", cache)
                s2 == IF result.outcome = "ok"
                      THEN _save_cache([s1 EXCEPT !.access_token = <<result.access_token>>],
                                       result.cache)
                      ELSE s1
            IN /\ session' = [s2 EXCEPT !.returnToSummary = <<>>]
               /\ resp' = Response("mock_callback", 200, "success", MockRedirectUrl(s2),
                                   <<>>, FALSE, result.network)
               /\ taken' = (taken \/ MockRedirectUrl(s2) # HomeUrl)
    /\ UNCHANGED <<config, env, nextUuid>>

\* StateMismatch that lets a callback pass when the backup blob holds its state
StateMismatchUnlessBlob(received_state, s) ==
    /\ ~BYPASS_STATE_CHECK
    /\ received_state # s.state
    /\ ~(/\ received_state # <<>>
         /\ s.encoded_state # <<>>
         /\ Len(s.encoded_state[1]) = 2
         /\ s.encoded_state[1][2][2] = received_state[1])

\* StateMismatch that ignores the bypass flag
StateMismatchAlways(received_state, s) == received_state # s.state

\* StateMismatch that compares only a state parameter that is present
StateMismatchIfPresent(received_state, s) ==
    ~BYPASS_STATE_CHECK /\ received_state # <<>> /\ received_state # s.state

\* app.py:213-214: the state check rejects the callback
StateMismatch(received_state, s) ==
    ~BYPASS_STATE_CHECK /\ received_state # s.state

\* RejectedSession that clears the session on a rejected callback
RejectedSessionCleared(s) == EmptySession

\* app.py:213-232: the early returns of the callback write nothing to the session
RejectedSession(s) == s

\* BypassWarned that warns only when the bypass let a mismatch through
BypassWarnedOnMismatch(received_state, s) ==
    BYPASS_STATE_CHECK /\ received_state # s.state

\* app.py:224-226: the warning is printed
BypassWarned(received_state, s) == BYPASS_STATE_CHECK

\* graph_service.py get_user_profile: the profile Graph answers, or an exception
get_user_profile(access_token, graph) ==
    IF graph # <<>> THEN [outcome |-> "ok", profile |-> graph]
    ELSE [outcome |-> "raise", profile |-> <<>>]

\* ReturnInfo that prefers the encoded state to the session's intent
ReturnInfoBlobFirst(s, encoded_state) ==
    IF encoded_state # <<>> /\ encoded_state[1] # None
          /\ DecodeState(encoded_state[1]) # <<>>
    THEN DecodeState(encoded_state[1])
    ELSE s.returnToSummary

\* app.py:256-272: session first, the encoded state second
ReturnInfo(s, encoded_state) ==
    IF s.returnToSummary # <<>> THEN s.returnToSummary
    ELSE IF encoded_state # <<>> /\ encoded_state[1] # None
         THEN DecodeState(encoded_state[1])
         ELSE <<>>

\* PopReturnInfo that leaves the encoded state in the session
PopReturnInfoKeepsBlob(s) == [s EXCEPT !.returnToSummary = <<>>]

\* app.py:278-282: both copies of the intent are removed from the session
PopReturnInfo(s) == [s EXCEPT !.returnToSummary = <<>>, !.encoded_state = <<>>]

\* ResumeUrl that knows only the kinds teams and zoom
ResumeUrlKnownKinds(return_info, s, user_profile) ==
    IF return_info.type = "teams"
    THEN Url("teams", return_info.id,
             IF return_info.email # "" THEN return_info.email
             ELSE IF s.email # <<>> /\ s.email[1] # "" THEN s.email[1]
             ELSE IF user_profile.mail = "" THEN "None" ELSE user_profile.mail)
    ELSE IF return_info.type = "zoom" THEN Url("zoom", return_info.id, "")
    ELSE HomeUrl

\* app.py:287-295: the redirect for a recovered return_info
ResumeUrl(return_info, s, user_profile) ==
    IF return_info.type = "teams"
    THEN Url("teams", return_info.id,
             IF return_info.email # "" THEN return_info.email
             ELSE IF s.email # <<>> /\ s.email[1] # "" THEN s.email[1]
             ELSE IF user_profile.mail = "" THEN "None" ELSE user_profile.mail)
    ELSE Url("zoom", return_info.id, "")

\* CallbackExcept that lets the exception leave the view
CallbackExceptReraises(text, warned, exchanged) ==
    Response("callback", 500, "unhandled", NoUrl, <<>>, warned, exchanged)

\* app.py:302-303: the except clause of the callback answers 500 with the
\* text of the exception
CallbackExcept(text, warned, exchanged) ==
    Response("callback", 500, "exception", NoUrl,
             <<"Authentication failed", text>>, warned, exchanged)

\* app.py:192-303, GET /auth/callback?state=&code=|error=&error_description=
\* on session s: the session afterwards, whether a fresh access token was
\* cached, and the response.
\* graph: what the Graph /me call gives if this callback comes to make it,
\* <<profile>> or <<>> when the call fails
auth_callback_view(s, received_state, code, error, error_description, graph) ==
    LET encoded_state == s.encoded_state
        cache == _load_cache(s)
        result == acquire_token_by_auth_code(code, cache)
        s1 == _save_cache(s, result.cache)
        fetched == get_user_profile(result.access_token, graph)
        user_profile == fetched.profile[1]
        s2 == [s1 EXCEPT !.user =
                 <<[name |-> user_profile.displayName,
                    email |-> IF user_profile.mail # "" THEN user_profile.mail
                              ELSE user_profile.userPrincipalName]>>]
        return_info == ReturnInfo(s2, encoded_state)
        warned == BypassWarned(received_state, s)
    IN IF USE_MOCK_DATA
       THEN [session |-> s, cached |-> FALSE,
             resp |-> Response("callback", 302, "redirect", Url("mock_login", "", ""),
                               <<>>, FALSE, FALSE)]
       ELSE IF StateMismatch(received_state, s)
       THEN [session |-> RejectedSession(s), cached |-> FALSE,
             resp |-> Response("callback", 400, "state_mismatch", NoUrl,
                               <<"State mismatch error", received_state, s.state>>,
                               FALSE, FALSE)]
       ELSE IF error # ""
       THEN [session |-> RejectedSession(s), cached |-> FALSE,
             resp |-> Response("callback", 400, "provider_error", NoUrl,
                               <<"Authentication error",
                                 IF error_description # "" THEN error_description
                                 ELSE error>>, warned, FALSE)]
       ELSE IF code = ""
       THEN [session |-> RejectedSession(s), cached |-> FALSE,
             resp |-> Response("callback", 400, "no_code", NoUrl,
                               <<"No authorization code received">>, warned, FALSE)]
       ELSE IF result.outcome = "raise"
       THEN [session |-> s, cached |-> FALSE,
             resp |-> CallbackExcept(result.text, warned, result.network)]
       ELSE IF result.outcome = "no_token"
       THEN [session |-> s, cached |-> FALSE,
             resp |-> Response("callback", 400, "no_token", NoUrl,
                               <<"Failed to acquire token", "Unknown error">>,
                               warned, TRUE)]
       ELSE IF fetched.outcome = "raise"
       THEN \* the cache was saved before the profile call raised
            [session |-> s1, cached |-> TRUE,
             resp |-> CallbackExcept("Graph API error", warned, TRUE)]
       ELSE IF return_info # <<>>
       THEN [session |-> PopReturnInfo(s2), cached |-> TRUE,
             resp |-> Response("callback", 302, "success",
                               ResumeUrl(return_info[1], s2, user_profile),
                               <<>>, warned, TRUE)]
       ELSE [session |-> s2, cached |-> TRUE,
             resp |-> Response("callback", 302, "success", HomeUrl, <<>>, warned, TRUE)]

\* the callback as a step of the session
auth_callback(received_state, code, error, error_description, graph) ==
    \E view \in {auth_callback_view(session, received_state, code, error,
                                     error_description, graph)} :
       /\ session' = view.session
       /\ resp' = view.resp
       /\ atExpired' = IF view.cached THEN FALSE ELSE atExpired
       /\ taken' = (taken \/ (view.resp.kind = "success" /\ view.resp.url # HomeUrl))
       /\ UNCHANGED <<config, refreshOk, nextUuid>>

\* remove_account that needs an MSAL application
remove_accountNeedsApp(account, cache) ==
    IF USE_MOCK_DATA \/ ~_get_msal_app
    THEN [outcome |-> "raise", cache |-> cache]
    ELSE [outcome |-> "ok",
          cache |-> [cache EXCEPT !.account = "", !.access_token = "",
                                  !.has_state_changed = TRUE]]

\* auth_service.py:189-202: whether the call returns, and the cache afterwards
remove_account(account, cache) ==
    IF USE_MOCK_DATA THEN [outcome |-> "ok", cache |-> cache]
    ELSE IF _get_msal_app /\ account # ""
    THEN [outcome |-> "ok",
          cache |-> [cache EXCEPT !.account = "", !.access_token = "",
                                  !.has_state_changed = TRUE]]
    ELSE [outcome |-> "ok", cache |-> cache]

\* LogoutSession that keeps the pending login attempt
LogoutSessionKeepsAttempt(s) ==
    [EmptySession EXCEPT !.state = s.state, !.returnToSummary = s.returnToSummary,
                         !.encoded_state = s.encoded_state]

\* app.py:315: session.clear()
LogoutSession(s) == EmptySession

\* app.py:306-316, GET /auth/logout on session s: the session afterwards and
\* the response; the cache that remove_account changed is never saved
auth_logout_view(s) ==
    LET cache == _load_cache(s)
        accounts == get_accounts(cache)
        removed == IF accounts # <<>> THEN remove_account(accounts[1], cache)
                   ELSE [outcome |-> "ok", cache |-> cache]
    IN IF removed.outcome = "raise"
       THEN [session |-> s,
             resp |-> Response("logout", 500, "exception", NoUrl, <<>>, FALSE, FALSE)]
       ELSE [session |-> LogoutSession(s),
             resp |-> Response("logout", 302, "redirect", HomeUrl, <<>>, FALSE, FALSE)]

\* the logout as a step of the session
auth_logout ==
    /\ session' = auth_logout_view(session).session
    /\ resp' = auth_logout_view(session).resp
    /\ UNCHANGED <<config, env, history, nextUuid>>

\* app.py:319-330, GET /auth/status
auth_status ==
    LET got == _get_token_from_cache(session, atExpired)
    IN /\ IF USE_MOCK_DATA
          THEN /\ UNCHANGED <<session, atExpired>>
          ELSE /\ session' = got.session
               /\ atExpired' = IF got.refreshed THEN FALSE ELSE atExpired
       /\ resp' = IF _is_authenticated(session, atExpired)
                  THEN Response("status", 200, "authenticated", NoUrl, <<>>, FALSE, FALSE)
                  ELSE Response("status", 200, "anonymous", NoUrl, <<>>, FALSE, FALSE)
       /\ UNCHANGED <<config, history, refreshOk, nextUuid>>

\* send_summary_view that goes by the token alone
send_summary_viewUnguarded(s, expired, complete, delivered) ==
    LET got == _get_token_from_cache(s, expired)
        access_token == IF got.token = <<>> /\ USE_MOCK_DATA
                        THEN IF s.access_token # <<>> THEN s.access_token
                             ELSE <<"mock_token">>
                        ELSE got.token
    IN IF access_token = <<>>
       THEN [session |-> s, refreshed |-> FALSE,
             resp |-> Response("send_summary", 401, "no_token", NoUrl,
                               <<"No valid access token">>, FALSE, FALSE)]
       ELSE [session |-> got.session, refreshed |-> got.refreshed,
             resp |-> Response("send_summary", 200, "sent", NoUrl,
                               <<"Summary sent">>, FALSE, FALSE)]

\* app.py:554-636, POST /teams/send-summary on session s: the session
\* afterwards, whether the silent call redeemed the refresh token, and the
\* response (kind "sent": Graph delivered the chat message).
\* complete: the request holds meeting_id and summary; delivered: what
\* send_chat_message gives if this request comes to call it
send_summary_view(s, expired, complete, delivered) ==
    LET checked == _get_token_from_cache(s, expired)
        \* the session after the call of _is_authenticated
        s1 == IF USE_MOCK_DATA THEN s ELSE checked.session
        expired1 == expired /\ ~(~USE_MOCK_DATA /\ checked.refreshed)
        got == _get_token_from_cache(s1, expired1)
        access_token == IF got.token = <<>> /\ USE_MOCK_DATA
                        THEN IF s1.access_token # <<>> THEN s1.access_token
                             ELSE <<"mock_token">>
                        ELSE got.token
        refreshed == ~USE_MOCK_DATA /\ checked.refreshed
    IN IF ~_is_authenticated(s, expired)
       THEN [session |-> s, refreshed |-> FALSE,
             resp |-> Response("send_summary", 401, "not_authenticated", NoUrl,
                               <<"Not authenticated">>, FALSE, FALSE)]
       ELSE IF ~complete
       THEN [session |-> s1, refreshed |-> refreshed,
             resp |-> Response("send_summary", 400, "bad_request", NoUrl,
                               <<"Meeting ID and summary are required">>, FALSE, FALSE)]
       ELSE IF access_token = <<>>
       THEN [session |-> s1, refreshed |-> refreshed,
             resp |-> Response("send_summary", 401, "no_token", NoUrl,
                               <<"No valid access token">>, FALSE, FALSE)]
       ELSE IF USE_MOCK_DATA \/ delivered
       THEN [session |-> got.session, refreshed |-> refreshed \/ got.refreshed,
             resp |-> Response("send_summary", 200, "sent", NoUrl,
                               <<"Summary sent">>, FALSE, FALSE)]
       ELSE [session |-> got.session, refreshed |-> refreshed \/ got.refreshed,
             resp |-> Response("send_summary", 500, "send_failed", NoUrl,
                               <<"Graph API error">>, FALSE, FALSE)]

\* the send-summary request as a step of the session
send_summary_to_teams(complete, delivered) ==
    \E view \in {send_summary_view(session, atExpired, complete, delivered)} :
       /\ session' = view.session
       /\ resp' = view.resp
       /\ atExpired' = IF view.refreshed THEN FALSE ELSE atExpired
       /\ UNCHANGED <<config, history, refreshOk, nextUuid>>

\* --------------------------------------------------------- environment
\* the browser comes back without its session cookie (app.py:115-117, 217-218)
SessionLost ==
    /\ session # EmptySession
    /\ session' = EmptySession
    /\ resp' = NoResp
    /\ UNCHANGED <<config, env, history, nextUuid>>

\* the cached access token reaches its expiry (expires_in, auth_service.py:111)
TokenExpires ==
    /\ ~USE_MOCK_DATA /\ credentials
    /\ session.token_cache # <<>>
    /\ ~atExpired
    /\ atExpired' = TRUE
    /\ resp' = NoResp
    /\ UNCHANGED <<config, history, session, nextUuid, refreshOk>>

\* the provider stops or resumes honouring the refresh token; MSAL then gives
\* None (auth_service.py:163-168)
RefreshChanges ==
    /\ ~USE_MOCK_DATA /\ credentials
    /\ session.token_cache # <<>>
    /\ refreshOk' = ~refreshOk
    /\ resp' = NoResp
    /\ UNCHANGED <<config, history, session, nextUuid, atExpired>>

Login == \E email \in Emails, return_type \in ReturnTypes, return_id \in ReturnIds :
             auth_login(email, return_type, return_id)

Graphs == {<<>>} \cup {<<p>> : p \in Profiles}

\* a callback carries no state, a forged one, or a uuid some auth_login issued;
\* the provider sends a description only along with an error, and an error
\* comes without a code or, from a forger, with a valid one; the Graph call
\* has an answer only for the token of a valid code
CallbackRequest(received_state, code, error, error_description, graph) ==
    /\ received_state # <<>> => received_state[1] < nextUuid
    /\ error = "" => error_description = ""
    /\ error # "" => code \in {"", "valid_code"}
    /\ (code # "valid_code" \/ error # "") => graph = <<>>

\* the callback requests that can reach the session in the current state
CallbackInputs ==
    {i \in ReceivedStates \X (Codes \cup {""}) \X (Errors \cup {""})
            \X (ErrorDescriptions \cup {""}) \X Graphs :
        CallbackRequest(i[1], i[2], i[3], i[4], i[5])}

Callback == \E i \in CallbackInputs : auth_callback(i[1], i[2], i[3], i[4], i[5])

\* Graph has an answer only for a complete request
SendSummary == \E complete \in BOOLEAN, delivered \in BOOLEAN :
                   /\ (~complete => ~delivered)
                   /\ send_summary_to_teams(complete, delivered)

Next ==
    \/ Login
    \/ auth_mock_login
    \/ auth_mock_callback
    \/ Callback
    \/ auth_logout
    \/ auth_status
    \/ SendSummary
    \/ SessionLost
    \/ TokenExpires
    \/ RefreshChanges

Spec == Init /\ [][Next]_vars

\* ============================================================== claims
\* the outcome of callback request i on the current session
After(i) == auth_callback_view(session, i[1], i[2], i[3], i[4], i[5])

Live == ~USE_MOCK_DATA

\* the session holds a backup blob
HasBlob(s) == s.encoded_state # <<>> /\ s.encoded_state[1] # None

\* C1: with the bypass flag off, once a later auth_login has issued a new
\* state, a live callback carrying an earlier state is rejected by the state
\* check, exchanges no code and leaves the session as it was, whatever code,
\* error or Graph answer comes with it.
C1_StaleStateRejected ==
    (Live /\ ~BYPASS_STATE_CHECK /\ credentials) =>
        \A i \in CallbackInputs :
            (i[1] # <<>> /\ i[1][1] >= 1 /\ i[1][1] < nextUuid - 1) =>
                \A view \in {After(i)} :
                    /\ view.resp.kind = "state_mismatch"
                    /\ ~view.resp.exchanged
                    /\ view.session = session

\* a callback carrying the first state was rejected while the second was expected
C1_Witness ==
    /\ Live /\ ~BYPASS_STATE_CHECK /\ credentials
    /\ resp.kind = "state_mismatch"
    /\ resp.msg[2] # <<>> /\ resp.msg[2][1] >= 1 /\ resp.msg[2][1] < nextUuid - 1
    /\ resp.msg[3] = <<nextUuid - 1>>

\* C2: with the bypass flag off, a live callback whose state differs from the
\* session's expected state answers 400 from the state check, exchanges no
\* code, writes neither token cache nor user, and an anonymous session stays
\* anonymous.
C2_MismatchIs400 ==
    (Live /\ ~BYPASS_STATE_CHECK) =>
        \A i \in CallbackInputs :
            i[1] # session.state =>
                \A view \in {After(i)} :
                    /\ view.resp.status = 400
                    /\ view.resp.kind = "state_mismatch"
                    /\ ~view.resp.exchanged
                    /\ ~view.cached
                    /\ view.session.token_cache = session.token_cache
                    /\ view.session.user = session.user
                    /\ ~_is_authenticated(session, atExpired)
                          => ~_is_authenticated(view.session, atExpired)

\* an anonymous session answered 400 to a callback without state while a
\* state was expected
C2_Witness ==
    /\ Live /\ ~BYPASS_STATE_CHECK
    /\ resp.kind = "state_mismatch" /\ resp.status = 400
    /\ resp.msg[2] = <<>> /\ resp.msg[3] # <<>>
    /\ session.token_cache = <<>> /\ session.user = <<>>
    /\ ~_is_authenticated(session, atExpired)

\* C3: with the bypass flag off, a live callback passes the state check only
\* if the session holds an expected state and the received state equals it; a
\* callback without state on a session without expected state is rejected
\* and exchanges no code.
C3_PassesOnlyWithExpectedState ==
    (Live /\ ~BYPASS_STATE_CHECK) =>
        \A i \in CallbackInputs :
            /\ After(i).resp.kind # "state_mismatch"
                  => (session.state # <<>> /\ i[1] = session.state)
            /\ (i[1] = <<>> /\ session.state = <<>>)
                  => (After(i).resp.kind = "state_mismatch" /\ ~After(i).resp.exchanged)

\* the intent an auth_login request gives, <<>> when it gives none
IntentOf(email, return_type, return_id) ==
    IF return_type # "" /\ return_id # ""
    THEN <<[type |-> return_type, id |-> return_id, email |-> email]>>
    ELSE <<>>

\* C4: after every auth_login that answers with its redirect, the pending
\* intent of the session is the intent given to that auth_login, none when it
\* gave none.
C4_IntentIsLatest ==
    [][\A email \in Emails, return_type \in ReturnTypes, return_id \in ReturnIds :
          (resp'.op = "login" /\ resp'.status = 302
           /\ auth_login(email, return_type, return_id))
             => session'.returnToSummary = IntentOf(email, return_type, return_id)]_vars

\* C5: Scenario A: after auth_login with the intent {zoom, m123} the session
\* is lost; the callback carrying that login's state and a valid code, with
\* Graph answering, then authenticates and redirects to the Zoom summary of
\* m123.
C5_ResumeAfterSessionLoss ==
    [][(/\ Live /\ ~BYPASS_STATE_CHECK /\ credentials
        /\ SessionLost
        /\ session.state = <<nextUuid - 1>>
        /\ session.returnToSummary # <<>>
        /\ session.returnToSummary[1].type = "zoom"
        /\ session.returnToSummary[1].id = "m123"
        /\ HasBlob(session))
          => \A i \in CallbackInputs :
                (i[1] = session.state /\ i[2] = "valid_code" /\ i[3] = "" /\ i[5] # <<>>) =>
                    LET view == auth_callback_view(session', i[1], i[2], i[3], i[4], i[5])
                    IN /\ view.resp.kind = "success"
                       /\ view.resp.url = Url("zoom", "m123", "")]_vars

\* C6: with the bypass flag off, after a callback with state s has
\* authenticated the session, a callback carrying s again, with no auth_login
\* in between, is rejected by the state check.
C6_ConsumedStateRejected ==
    [][(/\ Live /\ ~BYPASS_STATE_CHECK
        /\ resp'.op = "callback" /\ resp'.kind = "success"
        /\ session.state # <<>>)
          => \A i \in CallbackInputs :
                i[1] = session.state =>
                    auth_callback_view(session', i[1], i[2], i[3], i[4], i[5]).resp.kind
                        = "state_mismatch"]_vars

\* C7: with the bypass flag off, after a callback was rejected by the state
\* check the session holds no expected state, and no callback carrying a
\* state authenticates until an auth_login.
C7_RejectedAttemptDestroyed ==
    [][(/\ Live /\ ~BYPASS_STATE_CHECK
        /\ resp'.op = "callback" /\ resp'.kind = "state_mismatch")
          => /\ session'.state = <<>>
             /\ \A i \in CallbackInputs :
                   i[1] # <<>> =>
                       auth_callback_view(session', i[1], i[2], i[3], i[4], i[5]).resp.kind
                           # "success"]_vars

C9_FailedLoginStaysAnonymous ==
    [][(/\ Live /\ resp'.op = "callback" /\ resp'.status \in {400, 500}
        /\ ~_is_authenticated(session, atExpired))
          => /\ ~_is_authenticated(session', atExpired')
             /\ session'.token_cache = session.token_cache]_vars

\* C10: a live callback that fails the state check, carries an error or
\* lacks a code leaves the token cache, the user and the authenticated
\* status of an authenticated session unchanged.
C10_FailedCallbackKeepsAuthenticated ==
    [][(/\ Live /\ resp'.op = "callback"
        /\ resp'.kind \in {"state_mismatch", "provider_error", "no_code"}
        /\ _is_authenticated(session, atExpired))
          => /\ session'.token_cache = session.token_cache
             /\ session'.user = session.user
             /\ _is_authenticated(session', atExpired')]_vars

\* an authenticated session with its user answered 400 to a failed callback
C10_Witness ==
    /\ Live /\ resp.op = "callback"
    /\ resp.kind \in {"state_mismatch", "provider_error", "no_code"}
    /\ _is_authenticated(session, atExpired)
    /\ session.user # <<>> /\ session.token_cache # <<>>

\* C11: after every logout, in mock and in live mode, the session holds no
\* token cache, user, authenticated flag, expected state, intent or backup
\* blob, and _is_authenticated is false.
C11_LogoutClearsAll ==
    [][resp'.op = "logout"
          => /\ session'.token_cache = <<>>
             /\ session'.user = <<>>
             /\ session'.authenticated = <<>>
             /\ session'.access_token = <<>>
             /\ session'.state = <<>>
             /\ session'.email = <<>>
             /\ session'.returnToSummary = <<>>
             /\ session'.encoded_state = <<>>
             /\ ~_is_authenticated(session', atExpired')]_vars

\* a logout was answered after a login had resumed to its target
C11_Witness ==
    /\ resp.op = "logout" /\ resp.status = 302
    /\ taken
    /\ session = EmptySession

\* C12: in every reachable state a logout answers with the redirect to the
\* home page, and so does a second logout right after it, which leaves the
\* session as the first left it.
C12_LogoutIdempotent ==
    LET once == auth_logout_view(session)
        twice == auth_logout_view(once.session)
    IN /\ once.resp.status = 302 /\ once.resp.url = HomeUrl
       /\ twice.resp.status = 302 /\ twice.resp.url = HomeUrl
       /\ twice.session = once.session
       /\ once.session = EmptySession

\* in live mode without credentials a logout was answered on a session that
\* held no token cache
C12_Witness ==
    /\ Live /\ ~credentials
    /\ resp.op = "logout" /\ resp.status = 302 /\ resp.url = HomeUrl
    /\ session = EmptySession
    /\ auth_logout_view(session).session = session

\* whether text is one of the parts of the message
Contains(msg, text) == \E k \in 1..Len(msg) : msg[k] = text

\* C13: Scenario D: in mock mode _is_authenticated is false on a session
\* without keys, true right after the mock callback, and stays true over
\* every request but a logout; no request sends a code to the provider.
C13_MockLoginAuthenticates ==
    [][USE_MOCK_DATA =>
          /\ session = EmptySession => ~_is_authenticated(session, atExpired)
          /\ resp'.op = "mock_callback" => _is_authenticated(session', atExpired')
          /\ (_is_authenticated(session, atExpired) /\ resp'.op \notin {"logout", "none"})
                => _is_authenticated(session', atExpired')
          /\ ~resp'.exchanged]_vars

\* the mock callback answered and the session is authenticated
C13_Witness ==
    /\ USE_MOCK_DATA
    /\ resp.op = "mock_callback" /\ resp.status = 200 /\ ~resp.exchanged
    /\ _is_authenticated(session, atExpired)
    /\ session.authenticated = <<TRUE>>

\* C14: Scenario B: a live callback that carries error=access_denied and
\* passes the state check answers with a message containing "access_denied",
\* with or without an error_description, and leaves a session that was not
\* authenticated not authenticated.
C14_DeniedMessageHasCode ==
    Live =>
        \A i \in CallbackInputs :
            (i[3] = "access_denied" /\ ~StateMismatch(i[1], session)) =>
                /\ After(i).resp.kind = "provider_error"
                /\ Contains(After(i).resp.msg, "access_denied")
                /\ ~_is_authenticated(session, atExpired)
                      => ~_is_authenticated(After(i).session, atExpired)

\* C15: a live callback answers 400 when the state check fails, when it
\* carries a provider error, and when the provider refuses the code at the
\* exchange; it answers 302 only when it authenticated the session.
C15_ErrorsAre400 ==
    Live =>
        \A i \in CallbackInputs :
            /\ StateMismatch(i[1], session) => After(i).resp.status = 400
            /\ (~StateMismatch(i[1], session) /\ i[3] # "") => After(i).resp.status = 400
            /\ (/\ ~StateMismatch(i[1], session) /\ i[3] = ""
                /\ credentials /\ i[2] = "expired_code") => After(i).resp.status = 400
            /\ After(i).resp.status = 302 => After(i).resp.kind = "success"

\* C16: _get_token_from_cache gives a token exactly on the sessions for which
\* _is_authenticated is true, in mock mode as in live mode.
C16_TokenOnlyWhenAuthenticated ==
    /\ _get_token_from_cache(session, atExpired).token # <<>>
          => _is_authenticated(session, atExpired)
    /\ ~_is_authenticated(session, atExpired)
          => _get_token_from_cache(session, atExpired).token = <<>>

\* C17: the bypass flag is off when the environment does not hold the text
\* "true" (in any letter case) for it, and every live callback handled with
\* the flag on prints the warning, whatever it carries and however it ends.
C17_BypassWarns ==
    [][/\ \A value \in EnvValues :
             EnvFlag(value, "false") <=> (value \in {<<"true">>, <<"True">>})
       /\ (Live /\ BYPASS_STATE_CHECK /\ resp'.op = "callback") => resp'.warned]_vars

\* with the flag on, a callback that ended without authenticating printed
\* the warning
C17_Witness ==
    /\ Live /\ BYPASS_STATE_CHECK
    /\ resp.op = "callback" /\ resp.kind = "exception" /\ resp.warned

\* C18: with the bypass flag on, a live callback whose state differs from the
\* expected one is answered exactly as the same callback carrying the
\* expected state: 400 for an error parameter or a missing code, and with a
\* valid code, credentials and Graph answering, it authenticates and redirects.
C18_BypassProceedsAsMatching ==
    (Live /\ BYPASS_STATE_CHECK) =>
        \A i \in CallbackInputs :
            i[1] # session.state =>
                \A view \in {After(i)} :
                    /\ view = auth_callback_view(session, session.state, i[2], i[3], i[4], i[5])
                    /\ i[3] # "" => view.resp.kind = "provider_error"
                    /\ (i[3] = "" /\ i[2] = "") => view.resp.kind = "no_code"
                    /\ (i[3] = "" /\ i[2] = "valid_code" /\ credentials /\ i[5] # <<>>)
                          => /\ view.resp.kind = "success"
                             /\ view.resp.status = 302
                             /\ _is_authenticated(view.session, FALSE)

\* with the flag on a callback authenticated the session, and in the state
\* reached a callback with a state other than the expected one would too
C18_Witness ==
    /\ Live /\ BYPASS_STATE_CHECK /\ credentials
    /\ resp.op = "callback" /\ resp.kind = "success" /\ resp.warned
    /\ session.state # <<>>
    /\ \E i \in CallbackInputs :
          /\ i[1] # <<>> /\ i[1] # session.state
          /\ After(i).resp.kind = "success"

\* C19: after every auth_login that gave an intent and whose session writes
\* were stored, decoding the backup blob in the session gives the type, id
\* and email of that intent.
C19_BlobRoundTrip ==
    [][(resp'.op = "login" /\ session'.state = <<nextUuid>> /\ HasBlob(session'))
          => /\ DecodeState(session'.encoded_state[1]) = session'.returnToSummary
             /\ \A email \in Emails, return_type \in ReturnTypes, return_id \in ReturnIds :
                   (auth_login(email, return_type, return_id)
                    /\ IntentOf(email, return_type, return_id) # <<>>)
                      => DecodeState(session'.encoded_state[1])
                            = IntentOf(email, return_type, return_id)]_vars

\* an auth_login recorded a Teams intent with an email and its blob
C19_Witness ==
    /\ resp.op = "login" /\ resp.status = 302 /\ HasBlob(session)
    /\ session.state = <<nextUuid - 1>>
    /\ session.returnToSummary # <<>>
    /\ session.returnToSummary[1].type = "teams"
    /\ session.returnToSummary[1].email = "a@x"
    /\ DecodeState(session.encoded_state[1]) = session.returnToSummary

C21_AuthenticatedIffSilentToken ==
    [][/\ Live =>
            LET cache == _load_cache(session)
                accounts == get_accounts(cache)
            IN /\ _is_authenticated(session, atExpired)
                    <=> (/\ accounts # <<>>
                         /\ acquire_token_silent(accounts[1], cache, atExpired).result # <<>>)
               /\ _is_authenticated(session, atExpired)
                    <=> (/\ credentials
                         /\ session.token_cache # <<>>
                         /\ ~atExpired \/ refreshOk)
       /\ USE_MOCK_DATA =>
            (_is_authenticated(session, atExpired) <=> session.authenticated = <<TRUE>>)
       /\ resp'.op = "status" =>
            /\ resp'.status = 200
            /\ resp'.kind = "authenticated" <=> _is_authenticated(session, atExpired)]_vars

\* /auth/status answered anonymous for a session whose cached token is past
\* its expiry and cannot be refreshed
C21_Witness ==
    /\ Live /\ credentials
    /\ resp.op = "status" /\ resp.kind = "anonymous"
    /\ session.token_cache # <<>> /\ atExpired /\ ~refreshOk

ConfigurationError == "Microsoft credentials not configured"

\* C22: without credentials every request in mock mode is answered without
\* a configuration error, and every login, mock login, mock callback,
\* callback, status and logout request with 200 or 302; in live mode
\* auth_login, and a callback that comes to the code exchange, fail with the
\* configuration error.
C22_CredentialsOnlyForLive ==
    [][~credentials =>
          /\ (USE_MOCK_DATA /\ resp'.op # "none")
                => /\ resp'.op # "send_summary" => resp'.status \in {200, 302}
                   /\ resp'.kind # "exception"
                   /\ ~Contains(resp'.msg, ConfigurationError)
          /\ (Live /\ resp'.op = "login")
                => /\ resp'.status = 500
                   /\ Contains(resp'.msg, ConfigurationError)
          /\ (Live /\ resp'.op = "callback"
              /\ resp'.kind \notin {"state_mismatch", "provider_error", "no_code"})
                => /\ resp'.status = 500
                   /\ Contains(resp'.msg, ConfigurationError)
                   /\ ~resp'.exchanged]_vars

\* in mock mode without credentials the mock callback logged the session in
C22_Witness ==
    /\ USE_MOCK_DATA /\ ~credentials
    /\ resp.op = "mock_callback" /\ resp.status = 200
    /\ session.access_token = <<"mock_access_token_delegated">>
    /\ nextUuid > 1

\* C23: acquire_token_by_auth_code gives a result with an access_token or
\* raises, for every answer of the provider.
C23_ExchangeReturnsTokenOrRaises ==
    \A auth_code \in Codes :
        acquire_token_by_auth_code(auth_code, _load_cache(session)).outcome
            \in {"ok", "raise"}

\* backup blobs a session could hold when a callback carrying
\* received_state arrives: none, None, an undecodable text, or the encoding
\* of the very state the callback carries (of a forged one when it carries
\* none)
Blobs(received_state) ==
    {<<>>, <<None>>, <<<<"junk">>>>,
     <<EncodeState(IF received_state = <<>> THEN 0 ELSE received_state[1],
                   "zoom", "m123", "")>>}

\* C24: with the state check in force, whether a live callback is rejected
\* by it, and its status, are the same on the session and on the session
\* with any other backup blob in place of its own, also one that encodes the
\* received state.
C24_BlobNeverDecidesStateCheck ==
    (Live /\ ~BYPASS_STATE_CHECK) =>
        \A i \in CallbackInputs :
            \A mine \in {After(i).resp} :
                \A blob \in Blobs(i[1]) :
                    \A other \in {auth_callback_view([session EXCEPT !.encoded_state = blob],
                                                     i[1], i[2], i[3], i[4], i[5]).resp} :
                        /\ other.kind = "state_mismatch" <=> mine.kind = "state_mismatch"
                        /\ other.kind = "state_mismatch" <=> StateMismatch(i[1], session)
                        /\ other.status = mine.status

\* a callback carrying a state was rejected by the state check on a session
\* that holds a backup blob
C24_Witness ==
    /\ Live /\ ~BYPASS_STATE_CHECK
    /\ resp.kind = "state_mismatch" /\ resp.msg[2] # <<>>
    /\ HasBlob(session)

\* C25: a live callback that carries an error parameter answers with the
\* provider error, and one without error and without code answers with the
\* "no code" error, whatever state it carries.
C25_ErrorAndCodeBeforeState ==
    Live =>
        \A i \in CallbackInputs :
            /\ i[3] # "" => After(i).resp.kind = "provider_error"
            /\ (i[3] = "" /\ i[2] = "") => After(i).resp.kind = "no_code"

\* C26: a callback or mock callback makes a session authenticated only if
\* an auth_login wrote its state to the session since the session was last
\* empty (the expected state is written by auth_login alone and removed by
\* session.clear() alone).
C26_AuthenticatedOnlyAfterLogin ==
    [][(/\ resp'.op \in {"callback", "mock_callback"}
        /\ ~_is_authenticated(session, atExpired)
        /\ _is_authenticated(session', atExpired'))
          => session.state # <<>>]_vars

\* C27: whenever _is_authenticated is true the session holds a user with a
\* name and an email; the user is written only by a login that succeeded and
\* removed only with the whole session.
C27_AuthenticatedHasUser ==
    [][/\ _is_authenticated(session', atExpired')
            => /\ session'.user # <<>>
               /\ session'.user[1].name # ""
               /\ session'.user[1].email # ""
       /\ (session'.user # session.user /\ session'.user # <<>>)
            => resp'.kind = "success"
       /\ (session.user # <<>> /\ session'.user = <<>>)
            => (resp'.op \in {"logout", "none"} /\ session' = EmptySession)]_vars

\* the page a target kind resolves to
PageOf(type) == IF type = "teams" THEN "teams" ELSE "zoom"

\* intents of every kind, known or not
AnyIntents ==
    {[type |-> type, id |-> "m123", email |-> email] :
        type \in {"teams", "zoom", "webex"}, email \in Emails}

Succeeding(i) ==
    /\ i[1] = session.state
    /\ i[2] = "valid_code" /\ i[3] = "" /\ i[5] # <<>>

\* the blobs that hold no intent, and one that holds the Zoom intent
RecoveryBlobs == {<<>>, <<None>>, <<<<"junk">>>>, <<EncodeState(0, "zoom", "m123", "")>>}

\* C29: a live callback that succeeds on a session holding an intent
\* redirects by that intent whatever the backup blob is; on a session
\* without intent it redirects by the decoded blob, and to the home page,
\* still with 302, when there is no blob or the blob cannot be decoded.
C29_SessionFirstBlobSecond ==
    (Live /\ credentials) =>
        \A i \in {j \in CallbackInputs : Succeeding(j)}, blob \in RecoveryBlobs :
            /\ session.returnToSummary # <<>> =>
                  \A with \in {auth_callback_view([session EXCEPT !.encoded_state = blob],
                                                   i[1], i[2], i[3], i[4], i[5]).resp} :
                      /\ with.kind = "success"
                      /\ with.url = ResumeUrl(session.returnToSummary[1], session, i[5][1])
            /\ \A bare \in {auth_callback_view([session EXCEPT !.returnToSummary = <<>>,
                                                               !.encoded_state = blob],
                                               i[1], i[2], i[3], i[4], i[5]).resp} :
                  /\ bare.kind = "success" /\ bare.status = 302
                  /\ bare.url = IF blob = <<EncodeState(0, "zoom", "m123", "")>>
                                THEN Url("zoom", "m123", "") ELSE HomeUrl

\* a callback resumed to a Teams intent of the session, and in the state
\* reached a further callback succeeds and, given an undecodable blob, goes
\* to the home page
C29_Witness ==
    /\ Live /\ credentials
    /\ resp.op = "callback" /\ resp.kind = "success" /\ resp.url.page = "teams"
    /\ \E i \in {j \in CallbackInputs : Succeeding(j)} :
          LET bare == auth_callback_view([session EXCEPT !.encoded_state = <<<<"junk">>>>],
                                         i[1], i[2], i[3], i[4], i[5]).resp
          IN bare.kind = "success" /\ bare.url = HomeUrl

\* C30: two auth_login requests on one session and their callbacks: a
\* callback carrying the state of the earlier auth_login is rejected by the
\* state check, and a callback that succeeds redirects to the intent of the
\* auth_login that issued the expected state (the one that wrote the
\* session's encoded_state), to the home page when that one gave none.
C30_TabsResumeOwnIntent ==
    [][(Live /\ ~BYPASS_STATE_CHECK /\ credentials) =>
          /\ \A i \in CallbackInputs :
                (i[1] # <<>> /\ i[1][1] >= 1 /\ i[1][1] < nextUuid - 1)
                   => After(i).resp.kind = "state_mismatch"
          /\ (resp'.op = "callback" /\ resp'.kind = "success" /\ session.state # <<>>)
                => IF HasBlob(session)
                   THEN /\ DecodeState(session.encoded_state[1]) # <<>>
                        /\ resp'.url.page = PageOf(DecodeState(session.encoded_state[1])[1].type)
                        /\ resp'.url.id = DecodeState(session.encoded_state[1])[1].id
                   ELSE resp'.url = HomeUrl]_vars

\* C31: in live mode with credentials, in every state reached by a callback
\* that answered with an error, an auth_login with any parameters followed by
\* the callback carrying its state and a valid code, with Graph answering,
\* answers 302 and leaves the session authenticated.
C31_RetryAfterFailure ==
    (Live /\ credentials /\ resp.op = "callback" /\ resp.status \in {400, 500}) =>
        \A email \in Emails, return_type \in ReturnTypes, return_id \in ReturnIds,
           user_profile \in Profiles :
            \A view \in {auth_callback_view(
                             LoginSession(session, nextUuid, email, return_type, return_id),
                             <<nextUuid>>, "valid_code", "", "", <<user_profile>>)} :
                /\ view.resp.kind = "success"
                /\ view.resp.status = 302
                /\ view.cached
                /\ view.session.user # <<>>
                /\ _is_authenticated(view.session, FALSE)

\* a callback was rejected by the state check on a session that is not
\* authenticated and has a login pending
C31_Witness ==
    /\ Live /\ credentials /\ ~BYPASS_STATE_CHECK
    /\ resp.op = "callback" /\ resp.kind = "state_mismatch"
    /\ session.state # <<>>
    /\ ~_is_authenticated(session, atExpired)
    /\ nextUuid <= MaxLogins

\* the pending login attempt of a session
Pending(s) == <<s.state, s.returnToSummary, s.encoded_state, s.email>>

\* C32: /auth/status, _is_authenticated, _get_token_from_cache and the
\* send-summary route leave the session's expected state and pending intent
\* unchanged, so a callback carrying the expected state passes the state
\* check after them as before.
C32_PendingNeverExpires ==
    [][/\ resp'.op \in {"status", "send_summary"}
            => /\ Pending(session') = Pending(session)
               /\ ~StateMismatch(session.state, session')
       /\ Pending(_get_token_from_cache(session, atExpired).session) = Pending(session)]_vars

\* the send-summary route answered on a live session that holds a pending
\* state and intent
C32_Witness ==
    /\ Live /\ credentials
    /\ resp.op = "send_summary"
    /\ session.state # <<>> /\ session.returnToSummary # <<>>
    /\ ~StateMismatch(session.state, session)

\* C35: the send-summary route delivers or tries to deliver a chat message
\* only in a request in which _is_authenticated is true and a token is
\* obtained; on a session that is not authenticated it answers 401 and
\* leaves the session as it was.
C35_SendSummaryGuarded ==
    [][resp'.op = "send_summary" =>
          /\ resp'.kind \in {"sent", "send_failed"}
                => /\ _is_authenticated(session, atExpired)
                   /\ Live => _get_token_from_cache(session, atExpired).token # <<>>
          /\ ~_is_authenticated(session, atExpired)
                => /\ resp'.status = 401
                   /\ resp'.kind = "not_authenticated"
                   /\ session' = session]_vars

\* the send-summary route answered 401 on a session whose login never
\* completed
C35_Witness ==
    /\ resp.op = "send_summary" /\ resp.status = 401
    /\ resp.kind = "not_authenticated"
    /\ session.state # <<>>
    /\ ~_is_authenticated(session, atExpired)

\* C34: no raw exception leaves the callback: every live callback, whatever
\* the code exchange and the profile fetch do (raising included), ends either
\* with a redirect or with an error status that carries a user-facing message.
C34_CallbackAlwaysAnswers ==
    [][(Live /\ resp'.op = "callback") =>
          /\ resp'.kind # "unhandled"
          /\ \/ resp'.status = 302 /\ resp'.url # NoUrl
             \/ /\ resp'.status \in {400, 500}
                /\ resp'.msg # <<>>
                /\ resp'.url = NoUrl
          /\ (resp'.exchanged /\ resp'.kind = "exception")
                => resp' = CallbackExcept(resp'.msg[2], resp'.warned, TRUE)]_vars

\* a live callback whose profile fetch raised after the exchange answered 500
\* with a message
C34_Witness ==
    /\ Live /\ resp.op = "callback" /\ resp.status = 500
    /\ resp.exchanged /\ resp.msg = <<"Authentication failed", "Graph API error">>
    /\ session.token_cache # <<>>

\* C33: the session's token cache is written only by a successful code
\* exchange or a successful silent refresh; begin_login and a failed callback
\* leave the session's token cache unchanged.
C33_CacheWrittenOnlyOnSuccess ==
    [][/\ session'.token_cache # session.token_cache /\ session'.token_cache # <<>>
            => \/ resp'.op = "callback" /\ resp'.kind = "success" /\ resp'.exchanged
               \/ /\ resp'.op \in {"status", "send_summary"}
                  /\ atExpired /\ refreshOk /\ ~atExpired'
       /\ resp'.op = "login" => session'.token_cache = session.token_cache
       /\ (resp'.op = "callback" /\ resp'.status \in {400, 500})
            => session'.token_cache = session.token_cache]_vars

\* C38: the two modes keep to their own routes: in live mode the mock
\* callback answers 400 and the mock login page redirects to begin_login; in
\* mock mode the provider callback redirects to the mock login page; in each
\* case the session is unchanged and the step authenticates nobody.
C38_ModesIsolated ==
    [][/\ (Live /\ resp'.op = "mock_callback")
            => resp'.status = 400 /\ session' = session
       /\ (Live /\ resp'.op = "mock_login")
            => /\ resp'.status = 302 /\ resp'.url = Url("auth_login", "", "")
               /\ session' = session
       /\ (USE_MOCK_DATA /\ resp'.op = "callback")
            => /\ resp'.status = 302 /\ resp'.url = Url("mock_login", "", "")
               /\ ~resp'.exchanged
               /\ session' = session
       /\ ((Live /\ resp'.op \in {"mock_callback", "mock_login"})
              \/ (USE_MOCK_DATA /\ resp'.op = "callback"))
            => (_is_authenticated(session', atExpired')
                   => _is_authenticated(session, atExpired))]_vars

\* the mock callback was refused on a live session that is still anonymous
\* with its login pending
C38_Witness ==
    /\ Live /\ resp.op = "mock_callback" /\ resp.status = 400
    /\ session.state # <<>> /\ session.authenticated = <<>>
    /\ ~_is_authenticated(session, atExpired)

\* C37: a begin_login that fails (live mode without provider credentials)
\* leaves the session unchanged: expected state, email, intent and backup
\* blob of an earlier pending attempt stay as they were.
C37_FailedLoginLeavesSession ==
    [][(resp'.op = "login" /\ resp'.status = 500) => session' = session]_vars

\* app.py:118-125 read back: the blob of session s holds the session's
\* expected state and, beside an intent, the intent's kind and id
BlobAgrees(s) ==
    HasBlob(s) =>
        LET return_data == JsonLoads(B64Decode(s.encoded_state[1])[1])[1]
        IN /\ s.state = <<return_data.uuid>>
           /\ s.returnToSummary # <<>>
                => /\ return_data.type = s.returnToSummary[1].type
                   /\ return_data.id = s.returnToSummary[1].id

\* C36: in every reachable state a backup blob that is present encodes the
\* session's current expected state and, when the session also holds an
\* intent, the intent's kind and id; an auth_login without intent sets the
\* backup blob to None.
C36_BlobMatchesSession ==
    [][/\ BlobAgrees(session) /\ BlobAgrees(session')
       /\ \A email \in Emails, return_type \in ReturnTypes, return_id \in ReturnIds :
            (/\ return_type = "" \/ return_id = ""
             /\ auth_login(email, return_type, return_id)
             /\ session'.state = <<nextUuid>>)
                => session'.encoded_state = <<None>>]_vars

\* a second auth_login, with the other kind of target, replaced both the
\* intent and the blob of the first
C36_Witness ==
    /\ nextUuid = 3 /\ resp.op = "login"
    /\ HasBlob(session) /\ session.state = <<2>>
    /\ session.returnToSummary # <<>> /\ session.returnToSummary[1].type = "zoom"
    /\ DecodeState(session.encoded_state[1])[1].type = "zoom"

====
